---- MODULE Spec2Model ----
(***************************************************************************)
(* Model of frontend/src/App.js: the App component's display state         *)
(* (radarUrl, lastUpdated, bounds), its fetchMetadata callback and the     *)
(* mount effect that calls it once and then on a 5 minute interval.        *)
(*                                                                         *)
(* JavaScript values are tagged records so that null, undefined, numbers,  *)
(* strings, arrays and objects stay distinct:                              *)
(*   [t |-> "null"], [t |-> "undefined"], [t |-> "number", n |-> 25],      *)
(*   [t |-> "string", s |-> "u1"], [t |-> "array", a |-> <<...>>],         *)
(*   [t |-> "object", o |-> [field |-> value, ...]].                       *)
(* The state `metadata` of line 7 is never written or read and is left     *)
(* out.                                                                    *)
(***************************************************************************)
EXTENDS Integers, Sequences, FiniteSets, TLC

VARIABLES
    phase,        \* "created" (rendered, effect not yet run) | "active" | "unmounted"
    radarUrl,     \* useState(null), line 8
    lastUpdated,  \* useState(null), line 9
    bounds,       \* useState([[20,-130],[55,-60]]), lines 10-13
    interval,     \* the setInterval timer of line 34: [set, due]
    now,          \* the clock: ms since the mount effect ran (0 until then)
    issued,       \* number of fetch() calls made so far (request ids 1..issued)
    inflight,     \* request id -> 0 (awaiting fetch) or the HTTP status (awaiting res.json())
    lastResp,     \* the response the most recently settled request ended with
    prevResp,     \* the response the request settled before that one ended with
    lastId,       \* the id of the most recently settled request (0: none)
    calls,        \* the setter calls made by the most recently settled request
    succeeded     \* some request has ended with a 200 and a RadarMetadata body

vars == <<phase, radarUrl, lastUpdated, bounds, interval, now, issued,
          inflight, lastResp, prevResp, lastId, calls, succeeded>>

-----------------------------------------------------------------------------
(* Bounds of the model *)

\* Number of interval ticks the model lets fire.
MaxTicks == 2

-----------------------------------------------------------------------------
(* JavaScript values *)

Null == [t |-> "null"]
Undef == [t |-> "undefined"]
Num(n) == [t |-> "number", n |-> n]
Str(s) == [t |-> "string", s |-> s]
Arr(a) == [t |-> "array", a |-> a]
Obj(o) == [t |-> "object", o |-> o]

\* A body res.json() cannot parse (an HTML error page, say).
Unparseable == [t |-> "invalid"]

Nullish(v) == v.t \in {"null", "undefined"}

\* v.f for a non-nullish v: an own field of an object, otherwise undefined.
GetProp(v, f) ==
    IF v.t = "object" /\ f \in DOMAIN v.o THEN v.o[f] ELSE Undef

\* v[i], zero-based, for a non-nullish v: an element of an array, otherwise undefined.
GetIndex(v, i) ==
    IF v.t = "array" /\ i + 1 \in DOMAIN v.a THEN v.a[i + 1] ELSE Undef

\* JavaScript truthiness, as used by `radarUrl && ...` and `lastUpdated && ...`.
Truthy(v) ==
    CASE v.t \in {"null", "undefined"} -> FALSE
      [] v.t = "string" -> v.s # ""
      [] v.t = "number" -> v.n # 0
      [] OTHER -> TRUE

-----------------------------------------------------------------------------
(* Program constants *)

\* setInterval(fetchMetadata, 5 * 60 * 1000)
Interval == 5 * 60 * 1000

\* The initial value of the bounds state.
DefaultBounds ==
    Arr(<<Arr(<<Num(20), Num(-130)>>), Arr(<<Num(55), Num(-60)>>)>>)

-----------------------------------------------------------------------------
(* The environment: what the backend and the network can answer *)

\* The clock advances in steps of Quantum; the model stops the clock at Horizon.
Quantum == Interval \div 2
Horizon == (MaxTicks + 1) * Interval

Statuses == {200, 500}

Meta(u, ts, b) == Obj([image_url |-> Str(u), last_updated |-> Str(ts), bounds |-> b])

Payload1 == Meta("http://x/img.png", "2024-01-01T00:00Z",
                 Arr(<<Num(25), Num(-120), Num(50), Num(-70)>>))
Payload2 == Meta("http://x/img2.png", "2024-01-01T00:05Z",
                 Arr(<<Num(30), Num(-110), Num(45), Num(-80)>>))

Bodies ==
    { Unparseable,
      Payload1,
      Payload2,
      Null,                                                     \* the JSON text null
      Obj([detail |-> Str("Server Error")]),                     \* an error document
      Obj([image_url |-> Str("http://x/img3.png"),
           last_updated |-> Str("2024-01-01T00:10Z")]),          \* bounds missing
      Meta("http://x/img4.png", "2024-01-01T00:15Z",
           Arr(<<Num(25), Num(-120)>>)),                         \* bounds too short
      Meta("http://x/img5.png", "2024-01-01T00:20Z", Num(7)) }   \* bounds not an array

NoResp == [kind |-> "none"]
NetErr == [kind |-> "neterr"]
Http(s, b) == [kind |-> "http", status |-> s, body |-> b]

\* The body is a RadarMetadata document: two strings and four numbers.
IsRadarMetadata(b) ==
    /\ b.t = "object"
    /\ {"image_url", "last_updated", "bounds"} \subseteq DOMAIN b.o
    /\ b.o.image_url.t = "string"
    /\ b.o.last_updated.t = "string"
    /\ b.o.bounds.t = "array"
    /\ Len(b.o.bounds.a) = 4
    /\ \A i \in 1..4 : b.o.bounds.a[i].t = "number"

\* The outcome classes of the specification (the code itself never reads the
\* status): a request succeeded when it got a 2xx response whose body is a
\* RadarMetadata document; everything else is a fetch failure.
Success(r) == r.kind = "http" /\ r.status = 200 /\ IsRadarMetadata(r.body)
Failure(r) == r.kind # "none" /\ ~Success(r)

-----------------------------------------------------------------------------
(* fetchMetadata, lines 17-30 *)

NestBoundsTransposed(b) ==
    Arr(<<Arr(<<GetIndex(b, 1), GetIndex(b, 0)>>),
          Arr(<<GetIndex(b, 3), GetIndex(b, 2)>>)>>)

\* [[data.bounds[0], data.bounds[1]], [data.bounds[2], data.bounds[3]]]
NestBounds(b) ==
    Arr(<<Arr(<<GetIndex(b, 0), GetIndex(b, 1)>>),
          Arr(<<GetIndex(b, 2), GetIndex(b, 3)>>)>>)

Call(setter, v) == [set |-> setter, v |-> v]

SetterCallsNoTimestamp(data) ==
    IF Nullish(data)
    THEN [calls |-> <<>>, err |-> "TypeError"]
    ELSE LET c1 == Call("setRadarUrl", GetProp(data, "image_url"))
             b == GetProp(data, "bounds")
         IN  IF Nullish(b)
             THEN [calls |-> <<c1>>, err |-> "TypeError"]
             ELSE [calls |-> <<c1, Call("setBounds", NestBounds(b))>>,
                   err |-> "none"]

\* Lines 21-26, run on the parsed body: the setter calls made, in order, up to
\* the first property read of null or undefined, which throws a TypeError.
SetterCalls(data) ==
    IF Nullish(data)
    THEN [calls |-> <<>>, err |-> "TypeError"]
    ELSE LET c1 == Call("setRadarUrl", GetProp(data, "image_url"))
             c2 == Call("setLastUpdated", GetProp(data, "last_updated"))
             b == GetProp(data, "bounds")
         IN  IF Nullish(b)
             THEN [calls |-> <<c1, c2>>, err |-> "TypeError"]
             ELSE [calls |-> <<c1, c2, Call("setBounds", NestBounds(b))>>,
                   err |-> "none"]

\* The try block, lines 18-26, for a request that ends with r. fetch() rejects
\* on a network error and res.json() on an unparseable body; the status is
\* never read. err is what the catch of lines 27-29 logs.
TryBody(r) ==
    IF r.kind = "neterr" THEN [calls |-> <<>>, err |-> "NetworkError"]
    ELSE IF r.body = Unparseable THEN [calls |-> <<>>, err |-> "SyntaxError"]
    ELSE SetterCalls(r.body)

CommitKeepingOld(old, cs, setter) ==
    IF Truthy(old) \/ \A i \in DOMAIN cs : cs[i].set # setter
    THEN old
    ELSE cs[CHOOSE i \in DOMAIN cs : cs[i].set = setter].v

\* The value of one useState cell once the setter calls cs of one continuation
\* have been processed: the argument of the last call to its setter, or the
\* old value when the setter was not called.
Commit(old, cs, setter) ==
    IF \A i \in DOMAIN cs : cs[i].set # setter
    THEN old
    ELSE cs[CHOOSE i \in DOMAIN cs :
                /\ cs[i].set = setter
                /\ \A j \in DOMAIN cs : cs[j].set = setter => j <= i].v

DisplayState ==
    [radarUrl |-> radarUrl, lastUpdated |-> lastUpdated, bounds |-> bounds]

\* The JSX of lines 42 and 55.
OverlayRendered == phase # "unmounted" /\ Truthy(radarUrl)
HeaderShowsTimestamp == phase # "unmounted" /\ Truthy(lastUpdated)

-----------------------------------------------------------------------------
(* The state machine *)

Init ==
    /\ phase = "created"
    /\ radarUrl = Null
    /\ lastUpdated = Null
    /\ bounds = DefaultBounds
    /\ interval = [set |-> FALSE, due |-> 0]
    /\ now = 0
    /\ issued = 0
    /\ inflight = <<>>
    /\ lastResp = NoResp
    /\ prevResp = NoResp
    /\ lastId = 0
    /\ calls = <<>>
    /\ succeeded = FALSE

\* fetchMetadata() up to its first await: fetch(...) is called.
IssueFetch ==
    /\ issued' = issued + 1
    /\ inflight' = inflight @@ ((issued + 1) :> 0)

\* The effect of lines 32-36 on mount: fetchMetadata() and setInterval.
Activate ==
    /\ phase = "created"
    /\ phase' = "active"
    /\ IssueFetch
    /\ interval' = [set |-> TRUE, due |-> now + Interval]
    /\ UNCHANGED <<radarUrl, lastUpdated, bounds, now, lastResp, prevResp, lastId,
                   calls, succeeded>>

TickSkippingWhenBusy ==
    /\ interval.set
    /\ now = interval.due
    /\ interval.due < Horizon
    /\ interval' = [interval EXCEPT !.due = interval.due + Interval]
    /\ IF inflight = <<>>
       THEN IssueFetch
       ELSE UNCHANGED <<issued, inflight>>
    /\ UNCHANGED <<phase, radarUrl, lastUpdated, bounds, now, lastResp,
                   prevResp, lastId, calls, succeeded>>

\* The interval timer fires: fetchMetadata() is called and the timer re-arms.
Tick ==
    /\ interval.set
    /\ now = interval.due
    /\ interval.due < Horizon
    /\ IssueFetch
    /\ interval' = [interval EXCEPT !.due = interval.due + Interval]
    /\ UNCHANGED <<phase, radarUrl, lastUpdated, bounds, now, lastResp,
                   prevResp, lastId, calls, succeeded>>

DeactivateKeepingTimer ==
    /\ phase = "active"
    /\ phase' = "unmounted"
    /\ UNCHANGED <<radarUrl, lastUpdated, bounds, interval, now, issued,
                   inflight, lastResp, prevResp, lastId, calls, succeeded>>

\* The effect's cleanup on unmount, line 35: clearInterval(interval).
Deactivate ==
    /\ phase = "active"
    /\ phase' = "unmounted"
    /\ interval' = [interval EXCEPT !.set = FALSE]
    /\ UNCHANGED <<radarUrl, lastUpdated, bounds, now, issued, inflight,
                   lastResp, prevResp, lastId, calls, succeeded>>

\* Time passes. A set timer fires when it is due, so the clock does not pass it.
Advance ==
    /\ phase # "created"
    /\ now + Quantum <= Horizon
    /\ interval.set => now + Quantum <= interval.due /\ now + Quantum < Horizon
    /\ now' = now + Quantum
    /\ UNCHANGED <<phase, radarUrl, lastUpdated, bounds, interval, issued,
                   inflight, lastResp, prevResp, lastId, calls, succeeded>>

SettleStoppingOnFailure(i, r) ==
    LET cs == TryBody(r).calls
    IN  /\ inflight' = [j \in DOMAIN inflight \ {i} |-> inflight[j]]
        /\ lastResp' = r
        /\ prevResp' = lastResp
        /\ lastId' = i
        /\ calls' = cs
        /\ succeeded' = (succeeded \/ Success(r))
        /\ IF phase = "active"
           THEN /\ radarUrl' = Commit(radarUrl, cs, "setRadarUrl")
                /\ lastUpdated' = Commit(lastUpdated, cs, "setLastUpdated")
                /\ bounds' = Commit(bounds, cs, "setBounds")
           ELSE UNCHANGED <<radarUrl, lastUpdated, bounds>>
        /\ interval' = IF TryBody(r).err = "none"
                       THEN interval
                       ELSE [interval EXCEPT !.set = FALSE]
        /\ UNCHANGED <<phase, now, issued>>

\* Request i ends with r: the rest of fetchMetadata runs to its end. The
\* setter calls take effect together, and only while the component is mounted.
Settle(i, r) ==
    LET cs == TryBody(r).calls
    IN  /\ inflight' = [j \in DOMAIN inflight \ {i} |-> inflight[j]]
        /\ lastResp' = r
        /\ prevResp' = lastResp
        /\ lastId' = i
        /\ calls' = cs
        /\ succeeded' = (succeeded \/ Success(r))
        /\ IF phase = "active"
           THEN /\ radarUrl' = Commit(radarUrl, cs, "setRadarUrl")
                /\ lastUpdated' = Commit(lastUpdated, cs, "setLastUpdated")
                /\ bounds' = Commit(bounds, cs, "setBounds")
           ELSE UNCHANGED <<radarUrl, lastUpdated, bounds>>
        /\ UNCHANGED <<phase, interval, now, issued>>

\* await fetch(...) rejects: a network error. Control goes to the catch.
FetchRejects(i) ==
    /\ i \in DOMAIN inflight
    /\ inflight[i] = 0
    /\ Settle(i, NetErr)

\* await fetch(...) resolves with a response of status s; res.json() is called.
FetchResolves(i, s) ==
    /\ i \in DOMAIN inflight
    /\ inflight[i] = 0
    /\ inflight' = [inflight EXCEPT ![i] = s]
    /\ UNCHANGED <<phase, radarUrl, lastUpdated, bounds, interval, now,
                   issued, lastResp, prevResp, lastId, calls, succeeded>>

\* await res.json() settles with body b (or rejects when b is unparseable).
JsonSettles(i, b) ==
    /\ i \in DOMAIN inflight
    /\ inflight[i] # 0
    /\ Settle(i, Http(inflight[i], b))

Next ==
    \/ Activate
    \/ Tick
    \/ Deactivate
    \/ Advance
    \/ \E i \in 1..(MaxTicks + 1) : FetchRejects(i)
    \/ \E i \in 1..(MaxTicks + 1), s \in Statuses : FetchResolves(i, s)
    \/ \E i \in 1..(MaxTicks + 1), b \in Bodies : JsonSettles(i, b)

Spec == Init /\ [][Next]_vars

-----------------------------------------------------------------------------
(* Properties *)

\* This step settles a request: the rest of fetchMetadata has run for it.
Completes == issued' = issued /\ DOMAIN inflight' # DOMAIN inflight

\* The DisplayState the specification derives from a RadarMetadata body.
Expected(data) ==
    [radarUrl |-> data.o.image_url,
     lastUpdated |-> data.o.last_updated,
     bounds |-> Arr(<<Arr(<<data.o.bounds.a[1], data.o.bounds.a[2]>>),
                      Arr(<<data.o.bounds.a[3], data.o.bounds.a[4]>>)>>)]

Fields == {"radarUrl", "lastUpdated", "bounds"}

\* [[south, west], [north, east]] with four numbers.
WellFormedBounds(b) ==
    /\ b.t = "array"
    /\ Len(b.a) = 2
    /\ \A i \in 1..2 :
         /\ b.a[i].t = "array"
         /\ Len(b.a[i].a) = 2
         /\ \A j \in 1..2 : b.a[i].a[j].t = "number"

\* C1: a refresh that ends in a fetch failure (network error, non-2xx status,
\* unparseable or malformed body) leaves radarUrl, lastUpdated and bounds as
\* they were.
C1_FailureLeavesStateUnchanged ==
    [][(Completes /\ Failure(lastResp')) => DisplayState' = DisplayState]_vars

C3_NoSetterCallAfterDeactivation ==
    [][(phase = "unmounted" /\ Completes) => calls' = <<>>]_vars

\* C4: once the view is deactivated no new fetch is issued, however much time
\* passes.
C4_NoFetchAfterDeactivation ==
    [][phase = "unmounted" => issued' = issued]_vars

C4_Witness ==
    /\ phase = "unmounted"
    /\ ~interval.set
    /\ now >= interval.due + Interval

\* C5: after a successful refresh with a valid RadarMetadata body the state is
\* exactly {image_url, last_updated, [[bounds[0], bounds[1]], [bounds[2], bounds[3]]]}.
C5_SuccessDerivesState ==
    [][(Completes /\ phase = "active" /\ Success(lastResp')) =>
         DisplayState' = Expected(lastResp'.body)]_vars

C5_Witness ==
    /\ phase = "active"
    /\ lastResp = Http(200, Payload1)
    /\ radarUrl = Str("http://x/img.png")
    /\ lastUpdated = Str("2024-01-01T00:00Z")
    /\ bounds = Arr(<<Arr(<<Num(25), Num(-120)>>), Arr(<<Num(50), Num(-70)>>)>>)

\* C6: in every reachable state bounds is a pair of two coordinate pairs of
\* four numbers.
C6_BoundsWellFormed == WellFormedBounds(bounds)

\* C7: until a fetch has succeeded, bounds is the default, radarUrl and
\* lastUpdated are null and no overlay is rendered.
C7_DefaultUntilSuccess ==
    ~succeeded =>
        /\ radarUrl = Null
        /\ lastUpdated = Null
        /\ bounds = DefaultBounds
        /\ ~OverlayRendered

\* C8: while the view is active the timer stays set and the number of fetches
\* issued is one (the immediate one) plus one per 300,000 ms elapsed, whatever
\* the earlier fetches ended with; the tick due at this very instant may not
\* have fired yet.
C8_OneFetchPerInterval ==
    phase = "active" =>
        /\ interval.set
        /\ issued = (IF now = interval.due THEN 0 ELSE 1) + now \div Interval

C8_Witness ==
    /\ phase = "active"
    /\ Failure(prevResp)
    /\ Failure(lastResp)
    /\ lastId = 2
    /\ issued = 3
    /\ 3 \in DOMAIN inflight

\* C9: after two consecutive successful fetches with different payloads the
\* state is the one derived from the second, and no field in which the two
\* differ keeps the first one's value.
C9_SecondReplacesFirst ==
    (/\ phase = "active"
     /\ Success(prevResp)
     /\ Success(lastResp)
     /\ prevResp.body # lastResp.body) =>
        /\ DisplayState = Expected(lastResp.body)
        /\ \A f \in Fields :
             Expected(prevResp.body)[f] # Expected(lastResp.body)[f] =>
                 DisplayState[f] # Expected(prevResp.body)[f]

C9_Witness ==
    /\ phase = "active"
    /\ prevResp = Http(200, Payload1)
    /\ lastResp = Http(200, Payload2)
    /\ DisplayState = Expected(Payload2)

\* C10: every firing of the timer issues a new request, also while earlier
\* ones are outstanding, and a successful response that settles after a
\* later-issued request has settled still becomes the state.
C10_OverlapLastSettledWins ==
    [][/\ (phase # "created" /\ interval'.due # interval.due) =>
            /\ issued' = issued + 1
            /\ DOMAIN inflight' = DOMAIN inflight \cup {issued + 1}
       /\ (/\ Completes
           /\ phase = "active"
           /\ Success(lastResp')
           /\ \E j \in (lastId' + 1)..issued : j \notin DOMAIN inflight) =>
            DisplayState' = Expected(lastResp'.body)]_vars

C10_Witness ==
    /\ phase = "active"
    /\ issued = 2
    /\ inflight = <<>>
    /\ lastId = 1
    /\ lastResp = Http(200, Payload1)
    /\ prevResp = Http(200, Payload2)
    /\ DisplayState = Expected(Payload1)

====
